---- MODULE Spec2Model ----
(***************************************************************************)
(* Model of src/realtor-suite-agent.py: class RealtorAgent.                *)
(*                                                                         *)
(* The agent owns two fields, conversation_history and tools.  chat() is   *)
(* modelled statement by statement with a program counter per caller, so   *)
(* that the position of the model request, of the two appends to the       *)
(* transcript and of every _execute_tool invocation is visible.            *)
(*                                                                         *)
(* Python values are translated as follows: dict -> record, list ->        *)
(* sequence, str -> string, Optional[X] -> a set holding at most one X.    *)
(***************************************************************************)
EXTENDS Integers, Sequences, FiniteSets, TLC

\* ------------------------------------------------------------------------
\* Bounds of the model
\* ------------------------------------------------------------------------

\* chat() is not started once the transcript could outgrow this length
MaxHistory == 4

\* longest response.content the remote model returns
MaxBlocks == 2

\* ------------------------------------------------------------------------
\* The tool catalog returned by _register_tools (lines 41-494)
\* ------------------------------------------------------------------------

\* src/realtor-suite-agent.py:48-92
tool_post_to_99acres ==
  [name |-> "post_to_99acres",
   description |-> "Post a property listing to 99acres.com. Automatically generates SEO-optimized description and schedules posting.",
   input_schema |-> [type |-> "object",
     properties |-> [property_type |-> [type |-> "string",
         enum |-> <<"apartment", "villa", "plot", "commercial">>,
         description |-> "Type of property"],
       bhk |-> [type |-> "integer", description |-> "Number of bedrooms (1-5)"],
       location |-> [type |-> "string",
         description |-> "Property location (e.g., 'Hinjewadi, Pune')"],
       price |-> [type |-> "number", description |-> "Price in INR"],
       area_sqft |-> [type |-> "integer", description |-> "Area in square feet"],
       amenities |-> [type |-> "array",
         items |-> [type |-> "string"],
         description |-> "List of amenities (e.g., ['parking', 'gym', 'pool'])"],
       images |-> [type |-> "array",
         items |-> [type |-> "string"],
         description |-> "Array of image URLs"],
       description |-> [type |-> "string",
         description |-> "Property description (AI will enhance if needed)"]],
     required |-> <<"property_type", "location", "price">>]]

\* src/realtor-suite-agent.py:94-111
tool_post_to_magicbricks ==
  [name |-> "post_to_magicbricks",
   description |-> "Post a property listing to MagicBricks.com with optimized visibility settings.",
   input_schema |-> [type |-> "object",
     properties |-> [property_data |-> [type |-> "object", description |-> "Property details (same format as 99acres)"],
       boost_listing |-> [type |-> "boolean",
         description |-> "Whether to boost listing for better visibility"]],
     required |-> <<"property_data">>]]

\* src/realtor-suite-agent.py:113-145
tool_update_google_my_business ==
  [name |-> "update_google_my_business",
   description |-> "Create or update a post on Google My Business for a property listing.",
   input_schema |-> [type |-> "object",
     properties |-> [business_id |-> [type |-> "string", description |-> "Google My Business location ID"],
       post_type |-> [type |-> "string",
         enum |-> <<"OFFER", "EVENT", "PRODUCT">>,
         description |-> "Type of GMB post"],
       content |-> [type |-> "string", description |-> "Post content"],
       images |-> [type |-> "array", items |-> [type |-> "string"], description |-> "Image URLs"],
       call_to_action |-> [type |-> "string",
         enum |-> <<"BOOK", "CALL", "LEARN_MORE", "SIGN_UP">>,
         description |-> "CTA button"]],
     required |-> <<"business_id", "content">>]]

\* src/realtor-suite-agent.py:150-176
tool_send_whatsapp_campaign ==
  [name |-> "send_whatsapp_campaign",
   description |-> "Send a WhatsApp campaign to a list of contacts using approved templates.",
   input_schema |-> [type |-> "object",
     properties |-> [template_name |-> [type |-> "string", description |-> "Name of approved WhatsApp template"],
       recipients |-> [type |-> "array",
         items |-> [type |-> "string"],
         description |-> "Phone numbers with country code (e.g., ['+919876543210'])"],
       variables |-> [type |-> "object",
         description |-> "Template variables (e.g., {'name': 'John', 'property': '3BHK'})"],
       property_id |-> [type |-> "string", description |-> "Property ID to track campaign"]],
     required |-> <<"template_name", "recipients">>]]

\* src/realtor-suite-agent.py:178-227
tool_create_facebook_ad ==
  [name |-> "create_facebook_ad",
   description |-> "Create a Facebook ad campaign for a property listing. Automatically targets relevant audience.",
   input_schema |-> [type |-> "object",
     properties |-> [campaign_name |-> [type |-> "string", description |-> "Campaign name"],
       property_id |-> [type |-> "string", description |-> "Property ID to promote"],
       budget |-> [type |-> "number", description |-> "Daily budget in INR"],
       duration_days |-> [type |-> "integer", description |-> "Campaign duration in days"],
       target_audience |-> [type |-> "object",
         properties |-> [age_min |-> [type |-> "integer"],
           age_max |-> [type |-> "integer"],
           locations |-> [type |-> "array", items |-> [type |-> "string"]],
           interests |-> [type |-> "array", items |-> [type |-> "string"]]]],
       ad_creative |-> [type |-> "object",
         properties |-> [headline |-> [type |-> "string"],
           body |-> [type |-> "string"],
           image_url |-> [type |-> "string"],
           cta |-> [type |-> "string"]]]],
     required |-> <<"campaign_name", "property_id", "budget">>]]

\* src/realtor-suite-agent.py:229-261
tool_post_to_instagram ==
  [name |-> "post_to_instagram",
   description |-> "Create an Instagram post or story for a property listing.",
   input_schema |-> [type |-> "object",
     properties |-> [post_type |-> [type |-> "string",
         enum |-> <<"feed", "story", "reel">>,
         description |-> "Type of Instagram post"],
       property_id |-> [type |-> "string", description |-> "Property ID"],
       caption |-> [type |-> "string", description |-> "Post caption with hashtags"],
       media_urls |-> [type |-> "array",
         items |-> [type |-> "string"],
         description |-> "Image or video URLs"],
       tags |-> [type |-> "array",
         items |-> [type |-> "string"],
         description |-> "Hashtags (without #)"]],
     required |-> <<"post_type", "property_id", "media_urls">>]]

\* src/realtor-suite-agent.py:266-310
tool_create_google_ad ==
  [name |-> "create_google_ad",
   description |-> "Create a Google Search or Display ad campaign for property listing.",
   input_schema |-> [type |-> "object",
     properties |-> [campaign_name |-> [type |-> "string", description |-> "Campaign name"],
       campaign_type |-> [type |-> "string", enum |-> <<"search", "display">>, description |-> "Ad type"],
       keywords |-> [type |-> "array",
         items |-> [type |-> "string"],
         description |-> "Target keywords (for search ads)"],
       ad_copy |-> [type |-> "object",
         properties |-> [headline_1 |-> [type |-> "string"],
           headline_2 |-> [type |-> "string"],
           description |-> [type |-> "string"],
           display_url |-> [type |-> "string"]]],
       landing_page |-> [type |-> "string", description |-> "Landing page URL"],
       budget |-> [type |-> "number", description |-> "Daily budget in INR"],
       target_location |-> [type |-> "string", description |-> "Geographic targeting (e.g., 'Pune, India')"]],
     required |-> <<"campaign_name", "campaign_type", "budget">>]]

\* src/realtor-suite-agent.py:315-346
tool_qualify_lead ==
  [name |-> "qualify_lead",
   description |-> "Automatically qualify a lead by asking questions and scoring responses.",
   input_schema |-> [type |-> "object",
     properties |-> [lead_id |-> [type |-> "string", description |-> "Lead ID"],
       lead_data |-> [type |-> "object",
         properties |-> [name |-> [type |-> "string"],
           phone |-> [type |-> "string"],
           email |-> [type |-> "string"],
           source |-> [type |-> "string"],
           interested_in |-> [type |-> "string"]]],
       qualification_criteria |-> [type |-> "object",
         properties |-> [budget_range |-> [type |-> "string"],
           timeline |-> [type |-> "string"],
           location_preference |-> [type |-> "string"]]]],
     required |-> <<"lead_id", "lead_data">>]]

\* src/realtor-suite-agent.py:348-379
tool_match_properties_to_buyer ==
  [name |-> "match_properties_to_buyer",
   description |-> "Find and match properties from database that match buyer's criteria.",
   input_schema |-> [type |-> "object",
     properties |-> [buyer_criteria |-> [type |-> "object",
         properties |-> [budget_min |-> [type |-> "number"],
           budget_max |-> [type |-> "number"],
           locations |-> [type |-> "array", items |-> [type |-> "string"]],
           bhk |-> [type |-> "integer"],
           property_type |-> [type |-> "string"],
           must_have_amenities |-> [type |-> "array", items |-> [type |-> "string"]]],
         required |-> <<"budget_min", "budget_max">>],
       max_results |-> [type |-> "integer", description |-> "Maximum properties to return (default 5)"]],
     required |-> <<"buyer_criteria">>]]

\* src/realtor-suite-agent.py:381-404
tool_schedule_site_visit ==
  [name |-> "schedule_site_visit",
   description |-> "Schedule a site visit for a lead and send calendar invites.",
   input_schema |-> [type |-> "object",
     properties |-> [lead_id |-> [type |-> "string"],
       property_id |-> [type |-> "string"],
       visit_date |-> [type |-> "string", description |-> "ISO format date (YYYY-MM-DD)"],
       visit_time |-> [type |-> "string", description |-> "Time in HH:MM format"],
       send_reminders |-> [type |-> "boolean", description |-> "Send WhatsApp reminders 24h and 1h before"]],
     required |-> <<"lead_id", "property_id", "visit_date", "visit_time">>]]

\* src/realtor-suite-agent.py:406-424
tool_send_property_brochure ==
  [name |-> "send_property_brochure",
   description |-> "Generate and send a property brochure via WhatsApp or email.",
   input_schema |-> [type |-> "object",
     properties |-> [property_id |-> [type |-> "string"],
       recipient_phone |-> [type |-> "string"],
       recipient_email |-> [type |-> "string"],
       delivery_method |-> [type |-> "string", enum |-> <<"whatsapp", "email", "both">>],
       include_floor_plan |-> [type |-> "boolean"],
       include_location_map |-> [type |-> "boolean"]],
     required |-> <<"property_id">>]]

\* src/realtor-suite-agent.py:429-457
tool_generate_performance_report ==
  [name |-> "generate_performance_report",
   description |-> "Generate a comprehensive performance report for campaigns, listings, or overall business.",
   input_schema |-> [type |-> "object",
     properties |-> [report_type |-> [type |-> "string",
         enum |-> <<"campaign", "listing", "overall", "roi">>,
         description |-> "Type of report"],
       time_period |-> [type |-> "string",
         enum |-> <<"today", "week", "month", "quarter", "year">>,
         description |-> "Time period for report"],
       entity_id |-> [type |-> "string",
         description |-> "Campaign ID or Property ID (if specific report)"],
       metrics |-> [type |-> "array",
         items |-> [type |-> "string"],
         description |-> "Metrics to include (e.g., ['reach', 'conversions', 'roi'])"]],
     required |-> <<"report_type", "time_period">>]]

\* src/realtor-suite-agent.py:459-477
tool_track_lead_source ==
  [name |-> "track_lead_source",
   description |-> "Track and attribute lead sources to measure marketing effectiveness.",
   input_schema |-> [type |-> "object",
     properties |-> [lead_id |-> [type |-> "string"],
       source |-> [type |-> "string",
         enum |-> <<"99acres", "magicbricks", "facebook", "instagram", "google_ads", "whatsapp", "referral", "direct">>],
       source_details |-> [type |-> "object",
         description |-> "Additional source info (campaign_id, ad_id, etc.)"]],
     required |-> <<"lead_id", "source">>]]

\* src/realtor-suite-agent.py:479-493
tool_calculate_campaign_roi ==
  [name |-> "calculate_campaign_roi",
   description |-> "Calculate ROI for a specific marketing campaign.",
   input_schema |-> [type |-> "object",
     properties |-> [campaign_id |-> [type |-> "string"],
       total_spent |-> [type |-> "number"],
       leads_generated |-> [type |-> "integer"],
       conversions |-> [type |-> "integer"],
       revenue_generated |-> [type |-> "number"]],
     required |-> <<"campaign_id">>]]

\* a catalog whose first schema requires a field it does not declare
register_tools_undeclared ==
  << [tool_post_to_99acres EXCEPT !.input_schema.required = Append(@, "city")],
     tool_post_to_magicbricks,
     tool_update_google_my_business,
     tool_send_whatsapp_campaign,
     tool_create_facebook_ad,
     tool_post_to_instagram,
     tool_create_google_ad,
     tool_qualify_lead,
     tool_match_properties_to_buyer,
     tool_schedule_site_visit,
     tool_send_property_brochure,
     tool_generate_performance_report,
     tool_track_lead_source,
     tool_calculate_campaign_roi >>

\* _register_tools: the list returned at src/realtor-suite-agent.py:44-494
register_tools ==
  << tool_post_to_99acres,
     tool_post_to_magicbricks,
     tool_update_google_my_business,
     tool_send_whatsapp_campaign,
     tool_create_facebook_ad,
     tool_post_to_instagram,
     tool_create_google_ad,
     tool_qualify_lead,
     tool_match_properties_to_buyer,
     tool_schedule_site_visit,
     tool_send_property_brochure,
     tool_generate_performance_report,
     tool_track_lead_source,
     tool_calculate_campaign_roi >>

\* ------------------------------------------------------------------------
\* Inputs: callers, user messages, contexts, clock readings
\* ------------------------------------------------------------------------

\* callers of chat() on the one agent.  Caller 1 alone is the sequential
\* program of the demo.  chat() has no point at which one event loop could
\* switch to another turn (messages.create is the synchronous client and
\* _execute_tool never suspends), so turns interleave only when threads
\* drive them: callers 1 and 2 are two threads, each with its own loop
Threads == {1, 2}

UserMessages == {"post my 3BHK", "create a campaign"}

\* context: Optional[Dict]
Contexts == {{}, {[realtor_id |-> "r-17"]}}

\* datetime.now().strftime("%Y-%m-%d")
Dates == {"2025-06-30"}

\* datetime.now().isoformat()
Timestamps == {"2025-06-30T23:59:59.900000", "2025-07-01T00:00:00.100000"}

\* ------------------------------------------------------------------------
\* The remote model: what response.content may hold
\* ------------------------------------------------------------------------

TextBlocks ==
  { [type |-> "text", text |-> "Posting now. "],
    [type |-> "text", text |-> "Anything else?"] }

\* a registered tool with an input that satisfies its schema
use_valid ==
  [type |-> "tool_use", id |-> "toolu_01", name |-> "post_to_99acres",
   input |-> [property_type |-> "villa", location |-> "Hinjewadi, Pune", price |-> 9500000]]

\* a registered tool with an input that violates its schema: the enum value
\* is unknown and the required fields location and price are missing
use_invalid ==
  [type |-> "tool_use", id |-> "toolu_02", name |-> "post_to_99acres",
   input |-> [property_type |-> "castle"]]

\* a tool the catalog does not have
use_unregistered ==
  [type |-> "tool_use", id |-> "toolu_03", name |-> "delete_all_listings",
   input |-> [confirm |-> "yes"]]

ToolUseBlocks == {use_valid, use_invalid, use_unregistered}

\* a block that is neither text nor tool_use
OtherBlocks ==
  { [type |-> "thinking", thinking |-> "which portal?"] }

Blocks == TextBlocks \cup ToolUseBlocks \cup OtherBlocks

\* the blocks the remote model answers with over a whole conversation
ConversationBlocks ==
  { [type |-> "text", text |-> "Posting now. "], use_valid, use_unregistered }

StopReasons == {"end_turn", "tool_use"}

\* sequences of at most n distinct elements of S: the remote model gives
\* every block of one response its own id, so no block occurs twice
RECURSIVE SeqsUpTo(_, _)
SeqsUpTo(S, n) ==
  IF n = 0 THEN {<<>>}
  ELSE LET shorter == SeqsUpTo(S, n - 1)
       IN  shorter \cup
           UNION {{Append(s, b) : b \in {c \in S : \A i \in 1..Len(s) : s[i] # c}}
                  : s \in {q \in shorter : Len(q) = n - 1}}

Responses ==
  [content : SeqsUpTo(Blocks, MaxBlocks), stop_reason : StopReasons]

ConversationResponses ==
  [content : SeqsUpTo(ConversationBlocks, MaxBlocks), stop_reason : StopReasons]

\* ------------------------------------------------------------------------
\* State
\* ------------------------------------------------------------------------

VARIABLES
  conversation_history,  \* self.conversation_history
  tools,                 \* self.tools
  pc,                    \* pc[t]: where caller t stands in chat()
  user_message,          \* chat's parameter user_message
  context,               \* chat's parameter context
  request,               \* the request of t that is at the remote model
  response,              \* chat's local response
  text_response,         \* chat's local text_response
  tool_uses,             \* chat's local tool_uses
  tool_results,          \* chat's local tool_results
  returned,              \* the dict chat returned to its caller
  \* history variables, read by no action guard
  stub_calls,            \* arguments of every _execute_tool call of the turn
  events,                \* what the turn has done so far, in order
  user_entry,            \* index at which the turn appended its user message
  start_len,             \* length of the transcript when the turn started
  len_at_call,           \* length of the transcript when the request was made
  calls_started,         \* how many calls of chat() have begun
  owner,                 \* owner[i]: the call that appended entry i
  call_id,               \* number of the turn caller t is in (0: none yet)
  finished,              \* numbers of the calls that returned or raised
  finished_before,       \* calls that had finished when the turn started
  call_log               \* call_log[k]: message, outcome and response content of call k

agent_vars == <<conversation_history, tools>>
local_vars == <<user_message, context, request, response, text_response, tool_uses, tool_results, returned>>
ghost_vars == <<stub_calls, events, user_entry, start_len, len_at_call, calls_started, owner, call_id, finished, finished_before, call_log>>
vars == <<agent_vars, pc, local_vars, ghost_vars>>

\* ------------------------------------------------------------------------
\* RealtorAgent.__init__ (lines 36-39)
\* ------------------------------------------------------------------------

Init ==
  /\ conversation_history = <<>>
  /\ tools = register_tools
  /\ pc = [t \in Threads |-> "idle"]
  /\ user_message = [t \in Threads |-> ""]
  /\ context = [t \in Threads |-> {}]
  /\ request = [t \in Threads |-> {}]
  /\ response = [t \in Threads |-> {}]
  /\ text_response = [t \in Threads |-> ""]
  /\ tool_uses = [t \in Threads |-> <<>>]
  /\ tool_results = [t \in Threads |-> <<>>]
  /\ returned = [t \in Threads |-> {}]
  /\ stub_calls = [t \in Threads |-> <<>>]
  /\ events = [t \in Threads |-> <<>>]
  /\ user_entry = [t \in Threads |-> 0]
  /\ start_len = [t \in Threads |-> 0]
  /\ len_at_call = [t \in Threads |-> 0]
  /\ calls_started = 0
  /\ owner = <<>>
  /\ call_id = [t \in Threads |-> 0]
  /\ finished = {}
  /\ finished_before = [t \in Threads |-> {}]
  /\ call_log = <<>>

\* ------------------------------------------------------------------------
\* RealtorAgent._execute_tool (lines 583-605)
\* ------------------------------------------------------------------------

\* a stub that looks the tool up and reports failure for an unknown name
execute_tool_lookup(tool_name, tool_input, ctx, now) ==
  [success |-> \E i \in DOMAIN register_tools : register_tools[i].name = tool_name,
   tool |-> tool_name,
   input |-> tool_input,
   message |-> "Successfully executed " \o tool_name,
   timestamp |-> now]

execute_tool(tool_name, tool_input, ctx, now) ==
  [success |-> TRUE,
   tool |-> tool_name,
   input |-> tool_input,
   message |-> "Successfully executed " \o tool_name,
   timestamp |-> now]

\* ------------------------------------------------------------------------
\* RealtorAgent.chat (lines 496-581)
\* ------------------------------------------------------------------------

system_prompt(today) ==
  "You are an AI assistant for real estate professionals in India.\n\nYou help realtors with:\n- Posting properties to 99acres, MagicBricks, Google My Business\n- Creating marketing campaigns on WhatsApp, Facebook, Instagram, Google Ads\n- Managing and qualifying leads\n- Matching properties to buyers\n- Scheduling site visits\n- Generating analytics and reports\n\nWhen a user asks you to do something, use the appropriate tools. Always confirm actions before executing expensive operations (like creating paid ads).\n\nBe conversational, helpful, and proactive. If you need more information, ask clarifying questions.\n\nCurrent date: "
    \o today

\* a transcript kept to a window: the oldest entry goes once two are held
history_append_window(history, entry) ==
  IF Len(history) >= 2 THEN Append(Tail(history), entry) ELSE Append(history, entry)

\* lines 509 and 545: list.append on self.conversation_history
history_append(history, entry) == Append(history, entry)

\* assistant entries that turns already under way will still append
pending_appends == Cardinality({t \in Threads : pc[t] \in {"call", "wait", "reply"}})

\* lines 508-512: a new call appends the user message; the locals of the
\* previous call of this caller are gone
chat_start(t, message, ctx) ==
  /\ pc[t] \in {"idle", "done", "raised"}
  /\ Len(conversation_history) + pending_appends + 2 <= MaxHistory
  /\ conversation_history' =
       history_append(conversation_history, [role |-> "user", content |-> message])
  /\ user_message' = [user_message EXCEPT ![t] = message]
  /\ context' = [context EXCEPT ![t] = ctx]
  /\ request' = [request EXCEPT ![t] = {}]
  /\ response' = [response EXCEPT ![t] = {}]
  /\ text_response' = [text_response EXCEPT ![t] = ""]
  /\ tool_uses' = [tool_uses EXCEPT ![t] = <<>>]
  /\ tool_results' = [tool_results EXCEPT ![t] = <<>>]
  /\ returned' = [returned EXCEPT ![t] = {}]
  /\ pc' = [pc EXCEPT ![t] = "call"]
  /\ stub_calls' = [stub_calls EXCEPT ![t] = <<>>]
  /\ events' = [events EXCEPT ![t] = <<"append_user">>]
  /\ user_entry' = [user_entry EXCEPT ![t] = Len(conversation_history) + 1]
  /\ start_len' = [start_len EXCEPT ![t] = Len(conversation_history)]
  /\ len_at_call' = [len_at_call EXCEPT ![t] = 0]
  /\ calls_started' = calls_started + 1
  /\ call_id' = [call_id EXCEPT ![t] = calls_started + 1]
  /\ owner' = Append(owner, calls_started + 1)
  /\ finished_before' = [finished_before EXCEPT ![t] = finished]
  /\ call_log' = Append(call_log, [message |-> message, outcome |-> "pending", content |-> <<>>])
  /\ finished' = finished
  /\ UNCHANGED tools

\* a request that carries the current user message alone
chat_call_last_only(t, today) ==
  /\ pc[t] = "call"
  /\ request' = [request EXCEPT ![t] =
       {[model |-> "claude-sonnet-4-20250514",
         max_tokens |-> 4096,
         system |-> system_prompt(today),
         messages |-> <<conversation_history[Len(conversation_history)]>>,
         tools |-> tools]}]
  /\ pc' = [pc EXCEPT ![t] = "wait"]
  /\ events' = [events EXCEPT ![t] = Append(@, "model_call")]
  /\ len_at_call' = [len_at_call EXCEPT ![t] = Len(conversation_history)]
  /\ UNCHANGED <<agent_vars, user_message, context, response, text_response, tool_uses, tool_results, returned>>
  /\ UNCHANGED <<call_log, stub_calls, user_entry, start_len, calls_started, owner, call_id, finished, finished_before>>

\* a request built from a transcript private to the turn: its own entries
\* and those of the calls that had finished when it started
chat_call_isolated(t, today) ==
  /\ pc[t] = "call"
  /\ request' = [request EXCEPT ![t] =
       {[model |-> "claude-sonnet-4-20250514",
         max_tokens |-> 4096,
         system |-> system_prompt(today),
         messages |->
           LET keep == SelectSeq([i \in DOMAIN conversation_history |-> i],
                         LAMBDA i : owner[i] = call_id[t] \/ owner[i] \in finished_before[t])
           IN  [k \in 1..Len(keep) |-> conversation_history[keep[k]]],
         tools |-> tools]}]
  /\ pc' = [pc EXCEPT ![t] = "wait"]
  /\ events' = [events EXCEPT ![t] = Append(@, "model_call")]
  /\ len_at_call' = [len_at_call EXCEPT ![t] = Len(conversation_history)]
  /\ UNCHANGED <<agent_vars, user_message, context, response, text_response, tool_uses, tool_results, returned>>
  /\ UNCHANGED <<call_log, stub_calls, user_entry, start_len, calls_started, owner, call_id, finished, finished_before>>

\* lines 532-538: the one request of the turn; messages is the transcript
\* as it stands when the client serialises it
chat_call(t, today) ==
  /\ pc[t] = "call"
  /\ request' = [request EXCEPT ![t] =
       {[model |-> "claude-sonnet-4-20250514",
         max_tokens |-> 4096,
         system |-> system_prompt(today),
         messages |-> conversation_history,
         tools |-> tools]}]
  /\ pc' = [pc EXCEPT ![t] = "wait"]
  /\ events' = [events EXCEPT ![t] = Append(@, "model_call")]
  /\ UNCHANGED <<agent_vars, user_message, context, response, text_response, tool_uses, tool_results, returned>>
  /\ len_at_call' = [len_at_call EXCEPT ![t] = Len(conversation_history)]
  /\ UNCHANGED <<call_log, stub_calls, user_entry, start_len, calls_started, owner, call_id, finished, finished_before>>

\* line 532: messages.create returns a response
chat_response(t, resp) ==
  /\ pc[t] = "wait"
  /\ response' = [response EXCEPT ![t] = {resp}]
  /\ request' = [request EXCEPT ![t] = {}]
  /\ pc' = [pc EXCEPT ![t] = "reply"]
  /\ events' = [events EXCEPT ![t] = Append(@, "model_return")]
  /\ UNCHANGED <<agent_vars, user_message, context, text_response, tool_uses, tool_results, returned>>
  /\ call_log' = [call_log EXCEPT ![call_id[t]].content = resp.content]
  /\ UNCHANGED <<stub_calls, user_entry, start_len, len_at_call, calls_started, owner, call_id, finished, finished_before>>

\* a request that is sent again after a failure
chat_raise_retry(t) ==
  /\ pc[t] = "wait"
  /\ request' = [request EXCEPT ![t] = {}]
  /\ pc' = [pc EXCEPT ![t] = "call"]
  /\ events' = [events EXCEPT ![t] = Append(@, "model_raise")]
  /\ UNCHANGED <<agent_vars, user_message, context, response, text_response, tool_uses, tool_results, returned>>
  /\ UNCHANGED <<call_log, stub_calls, user_entry, start_len, len_at_call, calls_started, owner, call_id, finished, finished_before>>

\* a failure that takes the user message back out of the transcript
chat_raise_rollback(t) ==
  /\ pc[t] = "wait"
  /\ request' = [request EXCEPT ![t] = {}]
  /\ pc' = [pc EXCEPT ![t] = "raised"]
  /\ events' = [events EXCEPT ![t] = Append(@, "model_raise")]
  /\ finished' = finished \cup {call_id[t]}
  /\ conversation_history' = SubSeq(conversation_history, 1, Len(conversation_history) - 1)
  /\ owner' = SubSeq(owner, 1, Len(owner) - 1)
  /\ call_log' = [call_log EXCEPT ![call_id[t]].outcome = "raised"]
  /\ UNCHANGED <<tools, user_message, context, response, text_response, tool_uses, tool_results, returned>>
  /\ UNCHANGED <<stub_calls, user_entry, start_len, len_at_call, calls_started, call_id, finished_before>>

\* line 532: messages.create raises (network, authentication, rate limit);
\* chat has no try block, so the exception leaves chat
chat_raise(t) ==
  /\ pc[t] = "wait"
  /\ request' = [request EXCEPT ![t] = {}]
  /\ pc' = [pc EXCEPT ![t] = "raised"]
  /\ events' = [events EXCEPT ![t] = Append(@, "model_raise")]
  /\ finished' = finished \cup {call_id[t]}
  /\ UNCHANGED <<agent_vars, user_message, context, response, text_response, tool_uses, tool_results, returned>>
  /\ call_log' = [call_log EXCEPT ![call_id[t]].outcome = "raised"]
  /\ UNCHANGED <<stub_calls, user_entry, start_len, len_at_call, calls_started, owner, call_id, finished_before>>

\* a loop that puts each text in front of what it has gathered
RECURSIVE extract_blocks_prepend(_)
extract_blocks_prepend(content) ==
  IF Len(content) = 0
    THEN [tool_uses |-> <<>>, text_response |-> ""]
    ELSE LET sofar == extract_blocks_prepend(SubSeq(content, 1, Len(content) - 1))
             block == content[Len(content)]
         IN  IF block.type = "text"
               THEN [sofar EXCEPT !.text_response = block.text \o @]
             ELSE IF block.type = "tool_use"
               THEN [sofar EXCEPT !.tool_uses =
                       Append(@, [id |-> block.id, name |-> block.name, input |-> block.input])]
             ELSE sofar

\* lines 547-559: the loop over response.content, block by block
RECURSIVE extract_blocks(_)
extract_blocks(content) ==
  IF Len(content) = 0
    THEN [tool_uses |-> <<>>, text_response |-> ""]
    ELSE LET sofar == extract_blocks(SubSeq(content, 1, Len(content) - 1))
             block == content[Len(content)]
         IN  IF block.type = "text"
               THEN [sofar EXCEPT !.text_response = @ \o block.text]
             ELSE IF block.type = "tool_use"
               THEN [sofar EXCEPT !.tool_uses =
                       Append(@, [id |-> block.id, name |-> block.name, input |-> block.input])]
             ELSE sofar

\* a reply without blocks is not worth an entry
chat_process_skip_empty(t) ==
  /\ pc[t] = "reply"
  /\ \E resp \in response[t] :
       LET x == extract_blocks(resp.content)
       IN  /\ conversation_history' =
                IF Len(resp.content) = 0
                  THEN conversation_history
                  ELSE history_append(conversation_history, [role |-> "assistant", content |-> resp.content])
           /\ tool_uses' = [tool_uses EXCEPT ![t] = x.tool_uses]
           /\ text_response' = [text_response EXCEPT ![t] = x.text_response]
  /\ tool_results' = [tool_results EXCEPT ![t] = <<>>]
  /\ owner' = IF \E resp \in response[t] : Len(resp.content) = 0 THEN owner ELSE Append(owner, call_id[t])
  /\ pc' = [pc EXCEPT ![t] = "exec"]
  /\ events' = [events EXCEPT ![t] = Append(@, "append_assistant")]
  /\ UNCHANGED <<tools, user_message, context, request, response, returned>>
  /\ UNCHANGED <<call_log, stub_calls, user_entry, start_len, len_at_call, calls_started, call_id, finished, finished_before>>

\* lines 540-559: the assistant entry is appended, then the blocks of the
\* response are sorted into the locals (no await: one step of the caller)
chat_process(t) ==
  /\ pc[t] = "reply"
  /\ \E resp \in response[t] :
       LET x == extract_blocks(resp.content)
       IN  /\ conversation_history' =
                history_append(conversation_history, [role |-> "assistant", content |-> resp.content])
           /\ tool_uses' = [tool_uses EXCEPT ![t] = x.tool_uses]
           /\ text_response' = [text_response EXCEPT ![t] = x.text_response]
  /\ tool_results' = [tool_results EXCEPT ![t] = <<>>]
  /\ owner' = Append(owner, call_id[t])
  /\ pc' = [pc EXCEPT ![t] = "exec"]
  /\ events' = [events EXCEPT ![t] = Append(@, "append_assistant")]
  /\ UNCHANGED <<tools, user_message, context, request, response, returned>>
  /\ UNCHANGED <<call_log, stub_calls, user_entry, start_len, len_at_call, calls_started, call_id, finished, finished_before>>

\* a loop that also hands each result back to the transcript
chat_execute_feedback(t, now) ==
  /\ pc[t] = "exec"
  /\ Len(tool_results[t]) < Len(tool_uses[t])
  /\ LET tool_use == tool_uses[t][Len(tool_results[t]) + 1]
         result == execute_tool(tool_use.name, tool_use.input, context[t], now)
     IN  /\ tool_results' = [tool_results EXCEPT ![t] =
                Append(@, [tool_use_id |-> tool_use.id, name |-> tool_use.name, result |-> result])]
         /\ stub_calls' = [stub_calls EXCEPT ![t] =
                Append(@, [tool_name |-> tool_use.name, tool_input |-> tool_use.input,
                           context |-> context[t]])]
         /\ conversation_history' = Append(conversation_history,
                [role |-> "user",
                 content |-> <<[type |-> "tool_result", tool_use_id |-> tool_use.id,
                                content |-> result]>>])
  /\ owner' = Append(owner, call_id[t])
  /\ events' = [events EXCEPT ![t] = Append(@, "stub")]
  /\ UNCHANGED <<tools, pc, user_message, context, request, response, text_response, tool_uses, returned>>
  /\ UNCHANGED <<call_log, user_entry, start_len, len_at_call, calls_started, call_id, finished, finished_before>>

\* a loop that answers an unknown tool itself and leaves the stub out
chat_execute_validating(t, now) ==
  /\ pc[t] = "exec"
  /\ Len(tool_results[t]) < Len(tool_uses[t])
  /\ LET tool_use == tool_uses[t][Len(tool_results[t]) + 1]
         known == \E i \in DOMAIN tools : tools[i].name = tool_use.name
         result == execute_tool(tool_use.name, tool_use.input, context[t], now)
     IN  /\ tool_results' = [tool_results EXCEPT ![t] =
                Append(@, [tool_use_id |-> tool_use.id, name |-> tool_use.name,
                           result |-> IF known THEN result ELSE [result EXCEPT !.success = FALSE]])]
         /\ stub_calls' = [stub_calls EXCEPT ![t] =
                IF known
                  THEN Append(@, [tool_name |-> tool_use.name, tool_input |-> tool_use.input,
                                  context |-> context[t]])
                  ELSE @]
  /\ events' = [events EXCEPT ![t] = Append(@, "stub")]
  /\ UNCHANGED <<agent_vars, pc, user_message, context, request, response, text_response, tool_uses, returned>>
  /\ UNCHANGED <<call_log, user_entry, start_len, len_at_call, calls_started, owner, call_id, finished, finished_before>>

\* a loop that puts each result in front of the earlier ones
chat_execute_prepend(t, now) ==
  /\ pc[t] = "exec"
  /\ Len(tool_results[t]) < Len(tool_uses[t])
  /\ LET tool_use == tool_uses[t][Len(tool_results[t]) + 1]
         result == execute_tool(tool_use.name, tool_use.input, context[t], now)
     IN  /\ tool_results' = [tool_results EXCEPT ![t] =
                <<[tool_use_id |-> tool_use.id, name |-> tool_use.name, result |-> result]>> \o @]
         /\ stub_calls' = [stub_calls EXCEPT ![t] =
                Append(@, [tool_name |-> tool_use.name, tool_input |-> tool_use.input,
                           context |-> context[t]])]
  /\ events' = [events EXCEPT ![t] = Append(@, "stub")]
  /\ UNCHANGED <<agent_vars, pc, user_message, context, request, response, text_response, tool_uses, returned>>
  /\ UNCHANGED <<call_log, user_entry, start_len, len_at_call, calls_started, owner, call_id, finished, finished_before>>

\* a loop that registers a tool the catalog does not have before running it
chat_execute_registering(t, now) ==
  /\ pc[t] = "exec"
  /\ Len(tool_results[t]) < Len(tool_uses[t])
  /\ LET tool_use == tool_uses[t][Len(tool_results[t]) + 1]
         known == \E i \in DOMAIN tools : tools[i].name = tool_use.name
         result == execute_tool(tool_use.name, tool_use.input, context[t], now)
     IN  /\ tool_results' = [tool_results EXCEPT ![t] =
                Append(@, [tool_use_id |-> tool_use.id, name |-> tool_use.name, result |-> result])]
         /\ stub_calls' = [stub_calls EXCEPT ![t] =
                Append(@, [tool_name |-> tool_use.name, tool_input |-> tool_use.input,
                           context |-> context[t]])]
         /\ tools' = IF known THEN tools
                     ELSE Append(tools, [name |-> tool_use.name,
                                         description |-> "",
                                         input_schema |-> [type |-> "object"]])
  /\ events' = [events EXCEPT ![t] = Append(@, "stub")]
  /\ UNCHANGED <<conversation_history, pc, user_message, context, request, response, text_response, tool_uses, returned>>
  /\ UNCHANGED <<call_log, user_entry, start_len, len_at_call, calls_started, owner, call_id, finished, finished_before>>

\* lines 563-574: one pass of the loop over tool_uses
chat_execute(t, now) ==
  /\ pc[t] = "exec"
  /\ Len(tool_results[t]) < Len(tool_uses[t])
  /\ LET tool_use == tool_uses[t][Len(tool_results[t]) + 1]
         result == execute_tool(tool_use.name, tool_use.input, context[t], now)
     IN  /\ tool_results' = [tool_results EXCEPT ![t] =
                Append(@, [tool_use_id |-> tool_use.id, name |-> tool_use.name, result |-> result])]
         /\ stub_calls' = [stub_calls EXCEPT ![t] =
                Append(@, [tool_name |-> tool_use.name, tool_input |-> tool_use.input,
                           context |-> context[t]])]
  /\ events' = [events EXCEPT ![t] = Append(@, "stub")]
  /\ UNCHANGED <<agent_vars, pc, user_message, context, request, response, text_response, tool_uses, returned>>
  /\ UNCHANGED <<call_log, user_entry, start_len, len_at_call, calls_started, owner, call_id, finished, finished_before>>

\* a return that first hands the results of the turn to the transcript
chat_return_feedback(t) ==
  /\ pc[t] = "exec"
  /\ Len(tool_results[t]) = Len(tool_uses[t])
  /\ \E resp \in response[t] :
       returned' = [returned EXCEPT ![t] =
         {[message |-> text_response[t],
           tool_uses |-> tool_uses[t],
           tool_results |-> tool_results[t],
           stop_reason |-> resp.stop_reason]}]
  /\ pc' = [pc EXCEPT ![t] = "done"]
  /\ events' = [events EXCEPT ![t] = Append(@, "return")]
  /\ finished' = finished \cup {call_id[t]}
  /\ conversation_history' =
       IF Len(tool_results[t]) = 0
         THEN conversation_history
         ELSE Append(conversation_history,
                [role |-> "user",
                 content |-> [i \in DOMAIN tool_results[t] |->
                               [type |-> "tool_result",
                                tool_use_id |-> tool_results[t][i].tool_use_id,
                                content |-> tool_results[t][i].result]]])
  /\ owner' = IF Len(tool_results[t]) = 0 THEN owner ELSE Append(owner, call_id[t])
  /\ UNCHANGED <<tools, user_message, context, request, response, text_response, tool_uses, tool_results>>
  /\ call_log' = [call_log EXCEPT ![call_id[t]].outcome = "returned"]
  /\ UNCHANGED <<stub_calls, user_entry, start_len, len_at_call, calls_started, call_id, finished_before>>

\* lines 576-581
chat_return(t) ==
  /\ pc[t] = "exec"
  /\ Len(tool_results[t]) = Len(tool_uses[t])
  /\ \E resp \in response[t] :
       returned' = [returned EXCEPT ![t] =
         {[message |-> text_response[t],
           tool_uses |-> tool_uses[t],
           tool_results |-> tool_results[t],
           stop_reason |-> resp.stop_reason]}]
  /\ pc' = [pc EXCEPT ![t] = "done"]
  /\ events' = [events EXCEPT ![t] = Append(@, "return")]
  /\ finished' = finished \cup {call_id[t]}
  /\ UNCHANGED <<agent_vars, user_message, context, request, response, text_response, tool_uses, tool_results>>
  /\ call_log' = [call_log EXCEPT ![call_id[t]].outcome = "returned"]
  /\ UNCHANGED <<stub_calls, user_entry, start_len, len_at_call, calls_started, owner, call_id, finished_before>>

\* ------------------------------------------------------------------------
\* Specifications
\* ------------------------------------------------------------------------

\* a conversation: one caller awaiting each chat() before the next, as
\* the demo does (lines 615-636)
Next ==
  \/ \E m \in UserMessages, c \in Contexts : chat_start(1, m, c)
  \/ \E d \in Dates : chat_call(1, d)
  \/ \E r \in ConversationResponses : chat_response(1, r)
  \/ chat_raise(1)
  \/ chat_process(1)
  \/ \E now \in Timestamps : chat_execute(1, now)
  \/ chat_return(1)

Spec == Init /\ [][Next]_vars

\* the first chat() of a fresh agent, with every response the remote model
\* may give
TurnNext ==
  \/ \E m \in UserMessages, c \in Contexts : calls_started = 0 /\ chat_start(1, m, c)
  \/ \E d \in Dates : chat_call(1, d)
  \/ \E r \in Responses : chat_response(1, r)
  \/ chat_raise(1)
  \/ chat_process(1)
  \/ \E now \in Timestamps : chat_execute(1, now)
  \/ chat_return(1)

TurnSpec == Init /\ [][TurnNext]_vars

\* two threads calling chat() on the same agent; the remote model answers
\* with one block
ConcResponses ==
  {r \in Responses : Len(r.content) = 1 /\ r.stop_reason = "end_turn"}

ConcNext ==
  \E t \in Threads :
    \/ \E m \in UserMessages : chat_start(t, m, {})
    \/ \E d \in Dates : chat_call(t, d)
    \/ \E r \in ConcResponses : chat_response(t, r)
    \/ chat_raise(t)
    \/ chat_process(t)
    \/ \E now \in Timestamps : chat_execute(t, now)
    \/ chat_return(t)

ConcSpec == Init /\ [][ConcNext]_vars

\* ------------------------------------------------------------------------
\* Helpers of the properties
\* ------------------------------------------------------------------------

\* a user entry holds a string, an assistant entry a list of blocks: the
\* roles are compared first, the contents only when the roles agree
SameEntry(a, b) == a.role = b.role /\ a.content = b.content

IsPrefix(s, u) ==
  /\ Len(s) <= Len(u)
  /\ \A i \in 1..Len(s) : SameEntry(s[i], u[i])

Count(seq, x) == Cardinality({i \in DOMAIN seq : seq[i] = x})

RegisteredNames == {register_tools[i].name : i \in DOMAIN register_tools}

SchemaOf(name) ==
  register_tools[CHOOSE i \in DOMAIN register_tools : register_tools[i].name = name].input_schema

Range(seq) == {seq[i] : i \in DOMAIN seq}

\* the checks the catalog asks of an input: required fields and enums
SatisfiesSchema(input, schema) ==
  /\ Range(schema.required) \subseteq DOMAIN input
  /\ \A k \in DOMAIN input :
       (k \in DOMAIN schema.properties /\ "enum" \in DOMAIN schema.properties[k])
         => input[k] \in Range(schema.properties[k].enum)

\* a schema object, and every schema nested in it
RECURSIVE WellFormedSchema(_)
WellFormedSchema(schema) ==
  /\ "type" \in DOMAIN schema
  /\ "required" \in DOMAIN schema =>
       /\ "properties" \in DOMAIN schema
       /\ \A i \in DOMAIN schema.required : schema.required[i] \in DOMAIN schema.properties
  /\ "enum" \in DOMAIN schema =>
       /\ schema.type = "string"
       /\ Len(schema.enum) > 0
       /\ \A i \in DOMAIN schema.enum : schema.enum[i] \in STRING
  /\ "properties" \in DOMAIN schema =>
       \A k \in DOMAIN schema.properties : WellFormedSchema(schema.properties[k])
  /\ "items" \in DOMAIN schema => WellFormedSchema(schema.items)

ToolUsesOf(content) == SelectSeq(content, LAMBDA b : b.type = "tool_use")

TextsOf(content) == SelectSeq(content, LAMBDA b : b.type = "text")

RECURSIVE JoinText(_)
JoinText(blocks) ==
  IF Len(blocks) = 0 THEN "" ELSE Head(blocks).text \o JoinText(Tail(blocks))

\* ------------------------------------------------------------------------
\* Properties
\* ------------------------------------------------------------------------

\* C1: the transcript is empty at construction and every step, a failed
\* model request included, leaves the old transcript a prefix of the new one
\* (every step of chat moves pc or adds an event, so no step is exempt)
C1_AppendOnly ==
  /\ Len(conversation_history) = 0
  /\ [][IsPrefix(conversation_history, conversation_history')]_<<pc, events, Len(conversation_history)>>

\* a second call has appended after a first call that completed, and its
\* model request has failed
C1_Witness ==
  /\ pc[1] = "raised"
  /\ Len(conversation_history) = 3
  /\ conversation_history[2].role = "assistant"

\* C2: every result _execute_tool has produced reports success, whatever the
\* tool name, input and context, and every invocation has produced a result
C2_StubAlwaysSucceeds ==
  \A t \in Threads :
    /\ Len(tool_results[t]) = Len(stub_calls[t])
    /\ \A i \in DOMAIN tool_results[t] : tool_results[t][i].result.success = TRUE

\* the stub has run for a tool the catalog does not have, with a context
C2_Witness ==
  /\ pc[1] = "done"
  /\ context[1] # {}
  /\ \E i \in DOMAIN tool_results[1] :
       /\ tool_results[1][i].name \notin RegisteredNames
       /\ tool_results[1][i].result.success = TRUE

\* C3: a turn makes one model request and never a second one; every stub
\* invocation comes after the request has returned and after the assistant
\* entry has been appended; a finished turn has made exactly one request
C3_OneCallThenStubs ==
  \A t \in Threads :
    LET e == events[t]
    IN  /\ Count(e, "model_call") <= 1
        /\ pc[t] \in {"done", "raised"} => Count(e, "model_call") = 1
        /\ \A i \in DOMAIN e :
             e[i] = "stub" =>
               /\ \E j \in 1..(i - 1) : e[j] = "model_return"
               /\ \E j \in 1..(i - 1) : e[j] = "append_assistant"
               /\ \A j \in (i + 1)..Len(e) : e[j] # "model_call"
        /\ \A i \in DOMAIN e :
             e[i] = "model_call" => \A j \in 1..(i - 1) : e[j] # "stub"

\* a turn has returned after two stub invocations
C3_Witness ==
  /\ pc[1] = "done"
  /\ Count(events[1], "stub") = 2
  /\ Count(events[1], "model_call") = 1


\* C4 as stated: the history a turn sends holds only entries of the turn
\* itself and of calls that had finished when the turn started
C4_Original ==
  \A t \in Threads : \A req \in request[t] :
    \A i \in 1..Len(req.messages) :
      owner[i] = call_id[t] \/ owner[i] \in finished_before[t]

\* C4 amended: conversation_history is shared by the turns of one agent and
\* nothing guards it; the history a turn sends is the whole shared
\* transcript as it stood at the request: the turn's own user message and
\* every entry any turn, finished or not, had appended by then
C4_SharedTranscript ==
  \A t \in Threads : \A req \in request[t] :
    /\ Len(req.messages) = len_at_call[t]
    /\ len_at_call[t] <= Len(conversation_history)
    /\ \A i \in 1..Len(req.messages) :
         i <= Len(conversation_history) /\ SameEntry(req.messages[i], conversation_history[i])
    /\ user_entry[t] \in 1..Len(req.messages)
    /\ req.messages[user_entry[t]].role = "user"
    /\ req.messages[user_entry[t]].content = user_message[t]
    /\ owner[user_entry[t]] = call_id[t]

\* a request in flight carries the user message of another turn that has
\* not finished
C4_Witness ==
  \E t \in Threads : \E req \in request[t] :
    \E i \in 1..Len(req.messages) :
      /\ owner[i] # call_id[t]
      /\ owner[i] \notin finished
      /\ req.messages[i].role = "user"

\* C5 as stated: once chat has returned, the transcript holds neither the
\* name nor the input of a tool call requested in that exchange
C5_Original ==
  \A t \in Threads : \A r \in returned[t] :
    \A u \in DOMAIN r.tool_uses :
      \A i \in DOMAIN conversation_history :
        conversation_history[i].role = "assistant" =>
          \A k \in DOMAIN conversation_history[i].content :
            LET block == conversation_history[i].content[k]
            IN  block.type = "tool_use" =>
                  ~(block.name = r.tool_uses[u].name /\ block.input = r.tool_uses[u].input)

\* C5 amended: only the results are ephemeral.  Once chat has returned, the
\* exchange has added to the transcript its user entry and its assistant
\* entry and nothing else, no entry holds a tool result, and the catalog is
\* as registered; the id, name and input of every tool call of the exchange
\* stay in the transcript, in the assistant entry that keeps
\* response.content whole
C5_OnlyResultsEphemeral ==
  \A t \in Threads : \A r \in returned[t] : \A resp \in response[t] :
    LET mine == start_len[t] + 2
    IN  /\ Len(conversation_history) = mine
        /\ tools = register_tools
        /\ \A i \in DOMAIN conversation_history :
             /\ DOMAIN conversation_history[i] = {"role", "content"}
             /\ conversation_history[i].role \in {"user", "assistant"}
             /\ conversation_history[i].role = "assistant" =>
                  \A k \in DOMAIN conversation_history[i].content :
                    /\ conversation_history[i].content[k].type # "tool_result"
                    /\ "result" \notin DOMAIN conversation_history[i].content[k]
        /\ conversation_history[mine].role = "assistant"
        /\ conversation_history[mine].content = resp.content
        /\ \A u \in DOMAIN r.tool_uses :
             \E k \in DOMAIN conversation_history[mine].content :
               LET block == conversation_history[mine].content[k]
               IN  /\ block.type = "tool_use"
                   /\ block.id = r.tool_uses[u].id
                   /\ block.name = r.tool_uses[u].name
                   /\ block.input = r.tool_uses[u].input

\* chat has returned the results of two tool calls
C5_Witness ==
  /\ pc[1] = "done"
  /\ \E r \in returned[1] : Len(r.tool_results) = 2 /\ Len(r.tool_uses) = 2
  /\ Len(conversation_history) = 4

\* C6: a request carries the transcript of all earlier calls followed by the
\* current user message, and the catalog registered at construction
C6_FullHistoryAndCatalog ==
  \A t \in Threads : \A req \in request[t] :
    LET n == start_len[t]
    IN  /\ Len(req.messages) = n + 1
        /\ \A i \in 1..n :
             i <= Len(conversation_history) /\ SameEntry(req.messages[i], conversation_history[i])
        /\ req.messages[n + 1].role = "user"
        /\ req.messages[n + 1].content = user_message[t]
        /\ req.tools = register_tools
        /\ Len(req.tools) = 14

\* a request in flight carries an earlier exchange with a tool call
C6_Witness ==
  \E req \in request[1] :
    /\ Len(req.messages) = 3
    /\ req.messages[2].role = "assistant"
    /\ \E k \in DOMAIN req.messages[2].content : req.messages[2].content[k].type = "tool_use"
    /\ req.messages[3].content # req.messages[1].content


\* C7: every catalog entry has a name, a description and an input_schema of
\* type object; at every level each required field is a declared property
\* and each enum is a non-empty list of strings on a field of type string
C7_SchemasWellFormed ==
  \A i \in DOMAIN tools :
    /\ {"name", "description", "input_schema"} \subseteq DOMAIN tools[i]
    /\ tools[i].name \in STRING
    /\ tools[i].description \in STRING
    /\ tools[i].input_schema.type = "object"
    /\ WellFormedSchema(tools[i].input_schema)

\* the catalog is at the remote model: 14 schemas, among them an enum and a
\* required list inside a nested object
C7_Witness ==
  \E req \in request[1] :
    /\ Len(req.tools) = 14
    /\ \E i \in DOMAIN req.tools :
         \E k \in DOMAIN req.tools[i].input_schema.properties :
           LET field == req.tools[i].input_schema.properties[k]
           IN  "required" \in DOMAIN field /\ Len(field.required) = 2
    /\ \E i \in DOMAIN req.tools :
         \E k \in DOMAIN req.tools[i].input_schema.properties :
           "enum" \in DOMAIN req.tools[i].input_schema.properties[k]

\* C8: the stub is invoked once for each tool_use block of the response, in
\* order and with the block's name and input, whether or not the name is
\* registered or the input fits the schema; never more often, and not at all
\* for a response without tool_use blocks
C8_DispatchPassThrough ==
  \A t \in Threads :
    /\ response[t] = {} => Len(stub_calls[t]) = 0
    /\ \A resp \in response[t] :
         LET uses == ToolUsesOf(resp.content)
         IN  /\ Len(stub_calls[t]) <= Len(uses)
             /\ \A i \in DOMAIN stub_calls[t] :
                  /\ stub_calls[t][i].tool_name = uses[i].name
                  /\ stub_calls[t][i].tool_input = uses[i].input
             /\ pc[t] = "done" => Len(stub_calls[t]) = Len(uses)

\* chat has returned after the stub ran for an unregistered tool and for a
\* registered tool whose input breaks its schema
C8_Witness ==
  /\ pc[1] = "done"
  /\ \E i \in DOMAIN stub_calls[1] : stub_calls[1][i].tool_name \notin RegisteredNames
  /\ \E i \in DOMAIN stub_calls[1] :
       /\ stub_calls[1][i].tool_name \in RegisteredNames
       /\ ~SatisfiesSchema(stub_calls[1][i].tool_input, SchemaOf(stub_calls[1][i].tool_name))

\* C9: the returned tool_results match the returned tool_uses one to one
\* and in order, and each stub result echoes the name and the input
C9_ResultsMatchUses ==
  \A t \in Threads : \A r \in returned[t] :
    /\ Len(r.tool_results) = Len(r.tool_uses)
    /\ \A i \in DOMAIN r.tool_results :
         /\ r.tool_results[i].tool_use_id = r.tool_uses[i].id
         /\ r.tool_results[i].name = r.tool_uses[i].name
         /\ r.tool_results[i].result.tool = r.tool_uses[i].name
         /\ r.tool_results[i].result.input = r.tool_uses[i].input

\* chat has returned two results for two different tools
C9_Witness ==
  \E r \in returned[1] :
    /\ Len(r.tool_uses) = 2
    /\ r.tool_uses[1].id # r.tool_uses[2].id
    /\ r.tool_uses[1].name # r.tool_uses[2].name
    /\ r.tool_results[2].tool_use_id = r.tool_uses[2].id

\* C10: message is the texts of the text blocks joined in response order,
\* tool_uses is id, name and input of the tool_use blocks in response order,
\* other blocks add to neither, and stop_reason is the response's
C10_PartitionInOrder ==
  \A t \in Threads : \A r \in returned[t] : \A resp \in response[t] :
    LET uses == ToolUsesOf(resp.content)
    IN  /\ r.message = JoinText(TextsOf(resp.content))
        /\ Len(r.tool_uses) = Len(uses)
        /\ \A i \in DOMAIN r.tool_uses :
             /\ r.tool_uses[i].id = uses[i].id
             /\ r.tool_uses[i].name = uses[i].name
             /\ r.tool_uses[i].input = uses[i].input
             /\ DOMAIN r.tool_uses[i] = {"id", "name", "input"}
        /\ r.stop_reason = resp.stop_reason

\* chat has returned for a response of two different text blocks, and the
\* stop_reason is not the one the blocks suggest
C10_Witness ==
  \E r \in returned[1] : \E resp \in response[1] :
    /\ Len(resp.content) = 2
    /\ resp.content[1].type = "text"
    /\ resp.content[2].type = "text"
    /\ r.message = resp.content[1].text \o resp.content[2].text
    /\ r.message # resp.content[2].text \o resp.content[1].text
    /\ r.stop_reason = "tool_use"


\* C11: the catalog of the agent is the one registered at construction in
\* every state, whatever chat and _execute_tool have done: 14 tools with
\* pairwise distinct names, and every request carries exactly that catalog
C11_CatalogFixed ==
  /\ Len(tools) = 14
  /\ \A i \in DOMAIN tools : \A j \in DOMAIN tools : tools[i].name = tools[j].name => i = j
  /\ \A i \in DOMAIN tools : i \in DOMAIN register_tools /\ tools[i] = register_tools[i]
  /\ \A t \in Threads : \A req \in request[t] :
       /\ Len(req.tools) = 14
       /\ \A i \in DOMAIN req.tools : req.tools[i] = register_tools[i]

\* a request is in flight after an exchange in which the stub ran for a
\* tool the catalog does not have
C11_Witness ==
  \E req \in request[1] :
    /\ Len(req.messages) = 3
    /\ req.messages[2].role = "assistant"
    /\ \E k \in DOMAIN req.messages[2].content :
         /\ req.messages[2].content[k].type = "tool_use"
         /\ req.messages[2].content[k].name \notin RegisteredNames
    /\ Len(req.tools) = 14


\* call k has returned, or is running its stubs after its reply was appended
Settled(k) ==
  \/ call_log[k].outcome = "returned"
  \/ k = call_id[1] /\ pc[1] = "exec"

\* C12: when all n calls so far went through without an exception, the
\* transcript has 2n entries; entry 2k-1 is the user entry of the k-th
\* message and entry 2k the assistant entry of the k-th response content;
\* this holds all the way through the stub loop, which adds no entry
C12_TwoEntriesPerCall ==
  (\A k \in DOMAIN call_log : Settled(k)) =>
    LET n == Len(call_log)
    IN  /\ Len(conversation_history) = 2 * n
        /\ \A k \in 1..n :
             /\ conversation_history[2 * k - 1].role = "user"
             /\ conversation_history[2 * k - 1].content = call_log[k].message
             /\ conversation_history[2 * k].role = "assistant"
             /\ conversation_history[2 * k].content = call_log[k].content

\* two calls have returned, the second after running a stub, with different
\* user messages
C12_Witness ==
  /\ pc[1] = "done"
  /\ Len(call_log) = 2
  /\ \A k \in DOMAIN call_log : call_log[k].outcome = "returned"
  /\ Len(stub_calls[1]) >= 1
  /\ Len(conversation_history) = 4
  /\ call_log[1].message # call_log[2].message


\* C13: a call whose model request raised has left chat with the exception:
\* nothing was returned, no stub ran, no assistant entry was appended, and
\* its user message is still the last entry of the transcript; the request
\* of the call after it ends with two user entries, the orphan and its own
C13_FailedCallNotRolledBack ==
  /\ pc[1] = "raised" =>
       /\ call_log[call_id[1]].outcome = "raised"
       /\ returned[1] = {}
       /\ response[1] = {}
       /\ Len(stub_calls[1]) = 0
       /\ Count(events[1], "append_assistant") = 0
       /\ Len(conversation_history) = start_len[1] + 1
       /\ conversation_history[start_len[1] + 1].role = "user"
       /\ conversation_history[start_len[1] + 1].content = user_message[1]
  /\ \A req \in request[1] :
       (call_id[1] > 1 /\ call_log[call_id[1] - 1].outcome = "raised") =>
         LET n == Len(req.messages)
         IN  /\ n >= 2
             /\ req.messages[n - 1].role = "user"
             /\ req.messages[n - 1].content = call_log[call_id[1] - 1].message
             /\ req.messages[n].role = "user"
             /\ req.messages[n].content = user_message[1]

\* the first call has failed, and the request of the second call is in
\* flight: two user entries with different messages and nothing else
C13_Witness ==
  \E req \in request[1] :
    /\ call_id[1] = 2
    /\ call_log[1].outcome = "raised"
    /\ Len(req.messages) = 2
    /\ req.messages[1].role = "user"
    /\ req.messages[2].role = "user"
    /\ req.messages[1].content # req.messages[2].content


HasToolUse(content) == \E k \in DOMAIN content : content[k].type = "tool_use"

\* C14: no transcript entry carries a tool result: every user entry is the
\* first entry of its call and holds that call's user message, and no block
\* of an assistant entry is a tool result.  So in every request, an
\* assistant entry with a tool_use block that is not the last message is
\* followed directly by the user message of a later call
C14_ResultsNeverFedBack ==
  /\ Len(owner) = Len(conversation_history)
  /\ \A i \in DOMAIN conversation_history :
       /\ conversation_history[i].role = "assistant" =>
            \A k \in DOMAIN conversation_history[i].content :
              conversation_history[i].content[k].type # "tool_result"
       /\ conversation_history[i].role = "user" =>
            /\ i = 1 \/ owner[i - 1] # owner[i]
            /\ conversation_history[i].content = call_log[owner[i]].message
  /\ \A req \in request[1] :
       \A i \in 1..(Len(req.messages) - 1) :
         (req.messages[i].role = "assistant" /\ HasToolUse(req.messages[i].content)) =>
           /\ owner[i + 1] > owner[i]
           /\ req.messages[i + 1].role = "user"
           /\ req.messages[i + 1].content = call_log[owner[i + 1]].message

\* the request of the second call is in flight; the first call ran two
\* stubs, and its assistant entry is followed by the second user message
C14_Witness ==
  \E req \in request[1] :
    /\ call_id[1] = 2
    /\ call_log[1].outcome = "returned"
    /\ Len(ToolUsesOf(call_log[1].content)) = 2
    /\ Len(req.messages) = 3
    /\ req.messages[2].role = "assistant"
    /\ Len(ToolUsesOf(req.messages[2].content)) = 2
    /\ req.messages[3].role = "user"
    /\ req.messages[3].content = user_message[1]

====
